---------------------------- MODULE Spec2Model ----------------------------
(***************************************************************************)
(* Model of the Power BI / Leaflet visual of src/src/visual.ts: the update *)
(* scheduler (lodash debounce + retry timers), the reconciliation cycle    *)
(* performUpdate, and its pure parts (aggregation, classification, query   *)
(* building).                                                              *)
(*                                                                         *)
(* Conventions.  A JavaScript string is a tuple of one-character strings.  *)
(* A JavaScript number is a record [k, v]: k = "fin" with the integer v,   *)
(* or k \in {"inf", "ninf", "nan"} (v = 0) for Infinity, -Infinity, NaN.   *)
(* Array indices are 1-based and findIndex's "not found" (-1) is 0.        *)
(***************************************************************************)
EXTENDS Integers, Sequences, FiniteSets, TLC

(***************************************************************************)
(* JavaScript values                                                       *)
(***************************************************************************)
Fin(n) == [k |-> "fin", v |-> n]
Inf == [k |-> "inf", v |-> 0]
NInf == [k |-> "ninf", v |-> 0]
NaN == [k |-> "nan", v |-> 0]

\* A table cell (powerbi.PrimitiveValue): a number, a string or null.
NumCell(x) == [t |-> "num", n |-> x, s |-> << >>]
StrCell(str) == [t |-> "str", n |-> Fin(0), s |-> str]
NullCell == [t |-> "null", n |-> Fin(0), s |-> << >>]

Digits == <<"0", "1", "2", "3", "4", "5", "6", "7", "8", "9">>

IsSpace(c) == c \in {" ", "\t"}

IsDigit(c) == \E i \in 1..10 : Digits[i] = c

DigitVal(c) == (CHOOSE i \in 1..10 : Digits[i] = c) - 1

RECURSIVE TrimStart(_)
TrimStart(s) ==
  IF s # << >> /\ IsSpace(Head(s)) THEN TrimStart(Tail(s)) ELSE s

RECURSIVE TrimEnd(_)
TrimEnd(s) ==
  IF s # << >> /\ IsSpace(s[Len(s)]) THEN TrimEnd(SubSeq(s, 1, Len(s) - 1)) ELSE s

\* String.prototype.trim
Trim(s) == TrimEnd(TrimStart(s))

\* s.replace(/\s+/g, "-"): every maximal run of whitespace becomes one dash
RECURSIVE ReplaceWhitespace(_)
ReplaceWhitespace(s) ==
  IF s = << >> THEN << >>
  ELSE IF IsSpace(Head(s)) THEN <<"-">> \o ReplaceWhitespace(TrimStart(s))
  ELSE <<Head(s)>> \o ReplaceWhitespace(Tail(s))

RECURSIVE NatToString(_)
NatToString(n) ==
  IF n < 10 THEN <<Digits[n + 1]>>
  ELSE NatToString(n \div 10) \o <<Digits[(n % 10) + 1]>>

\* String(x) of a number
NumToString(x) ==
  CASE x.k = "inf" -> <<"I", "n", "f", "i", "n", "i", "t", "y">>
    [] x.k = "ninf" -> <<"-", "I", "n", "f", "i", "n", "i", "t", "y">>
    [] x.k = "nan" -> <<"N", "a", "N">>
    [] OTHER -> IF x.v < 0 THEN <<"-">> \o NatToString(-x.v) ELSE NatToString(x.v)

\* String(c) / c.toString() of a non-null cell
CellToString(c) == IF c.t = "num" THEN NumToString(c.n) ELSE c.s

RECURSIVE DigitsValue(_)
DigitsValue(s) ==
  IF s = << >> THEN 0
  ELSE 10 * DigitsValue(SubSeq(s, 1, Len(s) - 1)) + DigitVal(s[Len(s)])

\* Number(str): surrounding whitespace ignored, "" is 0, decimal digits with an
\* optional sign are the integer, anything else is NaN
StringToNumber(str) ==
  LET t == Trim(str)
      body == IF t # << >> /\ Head(t) \in {"-", "+"} THEN Tail(t) ELSE t
  IN  IF t = << >> THEN Fin(0)
      ELSE IF body # << >> /\ \A i \in 1..Len(body) : IsDigit(body[i])
           THEN Fin(IF Head(t) = "-" THEN -DigitsValue(body) ELSE DigitsValue(body))
      ELSE IF t = <<"I", "n", "f", "i", "n", "i", "t", "y">> THEN Inf
      ELSE IF t = <<"-", "I", "n", "f", "i", "n", "i", "t", "y">> THEN NInf
      ELSE NaN

\* unary plus on a cell: +null is 0
ToNumber(c) ==
  CASE c.t = "num" -> c.n
    [] c.t = "null" -> Fin(0)
    [] OTHER -> StringToNumber(c.s)

\* x || 0 : NaN and 0 are falsy
OrZero(x) == IF x.k = "nan" THEN Fin(0) ELSE x

\* IEEE addition restricted to integers and the three special values
NumAdd(a, b) ==
  CASE a.k = "nan" \/ b.k = "nan" -> NaN
    [] a.k = "fin" /\ b.k = "fin" -> Fin(a.v + b.v)
    [] a.k = "fin" -> b
    [] b.k = "fin" -> a
    [] a.k = b.k -> a
    [] OTHER -> NaN

\* a <= b on numbers: every comparison with NaN is false
NumLeq(a, b) ==
  CASE a.k = "nan" \/ b.k = "nan" -> FALSE
    [] a.k = "ninf" -> TRUE
    [] b.k = "inf" -> TRUE
    [] a.k = "inf" \/ b.k = "ninf" -> FALSE
    [] OTHER -> a.v <= b.v

(***************************************************************************)
(* Column Role Binder: cols.findIndex(c => c.roles?.<role>)                *)
(***************************************************************************)
\* first (1-based) column tagged with the role; 0 when there is none
findIndex(cols, role) ==
  IF \E i \in 1..Len(cols) : role \in cols[i]
  THEN CHOOSE i \in 1..Len(cols) :
         /\ role \in cols[i]
         /\ \A j \in 1..(i - 1) : role \notin cols[j]
  ELSE 0

\* r[idx] ?? null-ish: a row shorter than the index reads as undefined
CellAt(r, idx) == IF idx \in 1..Len(r) THEN r[idx] ELSE NullCell

(***************************************************************************)
(* Aggregation Engine                                                      *)
(***************************************************************************)
\* String(r[fipsIdx] ?? "")
FipsKey(r, fipsIdx) ==
  LET c == CellAt(r, fipsIdx) IN IF c.t = "null" THEN << >> ELSE CellToString(c)

\* an aggregation that would count rows instead of adding weights
RowWeightOne(r, crashIdx) == Fin(1)

\* +r[crashIdx] || 0
RowWeight(r, crashIdx) == OrZero(ToNumber(CellAt(r, crashIdx)))

\* crashByFIPS[f] || 0, for an object holding the totals so far
TotalOrZero(totals, f) == IF f \in DOMAIN totals THEN OrZero(totals[f]) ELSE Fin(0)

\* crashByFIPS[f] = (crashByFIPS[f] || 0) + v
Accumulate(totals, f, v) ==
  [g \in (DOMAIN totals) \cup {f} |->
     IF g = f THEN NumAdd(TotalOrZero(totals, f), v) ELSE totals[g]]

EmptyTotals == [g \in {} |-> Fin(0)]

\* rows.forEach(r => ...) building crashByFIPS, rows taken in order
RECURSIVE AggregateFrom(_, _, _, _)
AggregateFrom(totals, rows, fipsIdx, crashIdx) ==
  IF rows = << >> THEN totals
  ELSE AggregateFrom(
         Accumulate(totals, FipsKey(Head(rows), fipsIdx), RowWeight(Head(rows), crashIdx)),
         Tail(rows), fipsIdx, crashIdx)

Aggregate(rows, fipsIdx, crashIdx) == AggregateFrom(EmptyTotals, rows, fipsIdx, crashIdx)

(***************************************************************************)
(* Classification / Color Mapper                                           *)
(***************************************************************************)
\* breaks of getColor and getChoro in visual.ts
breaks == <<0, 10, 50, 100, 200, 500, 1000>>

\* breaks of getChoro that would differ from those of getColor in one place
ChoroBreaksShifted == <<0, 10, 50, 100, 250, 500, 1000>>

\* breaks of getChoro in visual.ts, an array of its own
choroBreaks == <<0, 10, 50, 100, 200, 500, 1000>>

\* breaks of the earlier variant of the visual (src/unnamed/part_001)
breaksV1 == <<0, 50, 100, 500, 1000, 5000, 10000>>

\* palette of getColor; entry 1 is the transparent class, entry 8 the highest
ColorRamp ==
  <<"rgba(0,0,0,0)", "#ffffcc", "#ffeda0", "#feb24c", "#fd8d3c", "#f03b20",
    "#bd0026", "#800026">>

\* palette of getChoro
ChoroRamp ==
  <<"rgba(0,0,0,0)", "#4575b4", "#74add1", "#abd9e9", "#fdae61", "#f46d43",
    "#d73027", "#a50026">>

\* a chain that would fall back to the first colour beyond the last break
ClassIndexWrapped(val, b) ==
  Cardinality({i \in 1..Len(b) : ~NumLeq(val, Fin(b[i]))}) % Len(b)

\* a chain that would compare with < : a value equal to a break goes up a class
ClassIndexStrict(val, b) ==
  Cardinality({i \in 1..Len(b) : NumLeq(Fin(b[i]), val)})

\* the chain val <= b[0] ? .. : val <= b[1] ? .. : ... : last, as the index
\* (0 = transparent .. 7 = highest) of the palette entry it selects
ClassIndex(val, b) ==
  IF \E i \in 1..Len(b) : NumLeq(val, Fin(b[i]))
  THEN (CHOOSE i \in 1..Len(b) :
          /\ NumLeq(val, Fin(b[i]))
          /\ \A j \in 1..(i - 1) : ~NumLeq(val, Fin(b[j]))) - 1
  ELSE Len(b)

getColor(val) == ColorRamp[ClassIndex(val, breaks) + 1]

getChoro(val) == ChoroRamp[ClassIndex(val, choroBreaks) + 1]

\* getColor of src/unnamed/part_001 (same palette, its own breaks)
getColorV1(val) == ColorRamp[ClassIndex(val, breaksV1) + 1]

(***************************************************************************)
(* Category selection and Query Builder                                    *)
(***************************************************************************)
\* Set.prototype.add on an insertion-ordered set
SetAdd(set, x) ==
  IF \E i \in 1..Len(set) : set[i] = x THEN set ELSE Append(set, x)

\* String.prototype.toLowerCase, on the letters the model's column names use
LowerChar(c) ==
  CASE c = "I" -> "i" [] c = "N" -> "n" [] c = "T" -> "t" [] c = "E" -> "e"
    [] c = "R" -> "r" [] c = "S" -> "s" [] c = "A" -> "a" [] c = "C" -> "c"
    [] c = "O" -> "o" [] c = "U" -> "u" [] c = "Y" -> "y" [] OTHER -> c

toLowerCase(s) == [i \in 1..Len(s) |-> LowerChar(s[i])]

interstateName == <<"i", "n", "t", "e", "r", "s", "t", "a", "t", "e">>

\* basicFilter.values?.forEach(val => { if (val != null) set.add(String(val).trim()) })
RECURSIVE AddFilterValues(_, _)
AddFilterValues(set, values) ==
  IF values = << >> THEN set
  ELSE AddFilterValues(
         IF Head(values).t = "null" THEN set
         ELSE SetAdd(set, Trim(CellToString(Head(values)))),
         Tail(values))

\* for (const target of targets): every target on the column "interstate"
\* adds all of the filter's values
RECURSIVE AddFilterTargets(_, _, _)
AddFilterTargets(set, targets, values) ==
  IF targets = << >> THEN set
  ELSE AddFilterTargets(
         IF toLowerCase(Head(targets)) = interstateName
         THEN AddFilterValues(set, values) ELSE set,
         Tail(targets), values)

\* for (const filter of jsonFilters): only basic filters are read
RECURSIVE SelectedFromFilters(_, _)
SelectedFromFilters(set, jsonFilters) ==
  IF jsonFilters = << >> THEN set
  ELSE SelectedFromFilters(
         IF Head(jsonFilters).filterType = "Basic"
         THEN AddFilterTargets(set, Head(jsonFilters).target, Head(jsonFilters).values)
         ELSE set,
         Tail(jsonFilters))

\* rows.forEach(row => { const val = row[idx]?.toString()?.trim(); if (val) add })
RECURSIVE SelectedFromRows(_, _, _)
SelectedFromRows(set, rows, interstateIdx) ==
  IF rows = << >> THEN set
  ELSE LET c == CellAt(Head(rows), interstateIdx)
           val == IF c.t = "null" THEN << >> ELSE Trim(CellToString(c))
       IN  SelectedFromRows(IF val # << >> THEN SetAdd(set, val) ELSE set,
                            Tail(rows), interstateIdx)

\* a selection that reads the rows whatever the filters supplied
selectedMerged(jsonFilters, rows, interstateIdx) ==
  SelectedFromRows(SelectedFromFilters(<< >>, jsonFilters), rows, interstateIdx)

\* selectedInterstates as performUpdate holds it before the query is built
selectedInterstates(jsonFilters, rows, interstateIdx) ==
  LET fromFilters == SelectedFromFilters(<< >>, jsonFilters)
  IN  IF Len(fromFilters) = 0 /\ interstateIdx >= 1
      THEN SelectedFromRows(fromFilters, rows, interstateIdx)
      ELSE fromFilters

I26 == <<"I", "-", "2", "6">>
I40 == <<"I", "-", "4", "0">>
I77 == <<"I", "-", "7", "7">>
I85 == <<"I", "-", "8", "5">>
I95 == <<"I", "-", "9", "5">>

VALID_ROUTES == {I26, I40, I77, I85, I95}

\* a normalization that trims and leaves inner whitespace alone
NormalizeTrimOnly(raw) == Trim(raw)

\* raw.trim().replace(/\s+/g, "-")
Normalize(raw) == ReplaceWhitespace(Trim(raw))

\* a filter that would let every normalized candidate through
KeepAny(norm) == TRUE

\* .filter(norm => VALID_ROUTES.has(norm))
KeepRoute(norm) == norm \in VALID_ROUTES

\* Array.from(selected).map(normalize).filter(keep)
RECURSIVE safeInterstates(_)
safeInterstates(selected) ==
  IF selected = << >> THEN << >>
  ELSE (IF KeepRoute(Normalize(Head(selected)))
        THEN <<Normalize(Head(selected))>> ELSE << >>)
       \o safeInterstates(Tail(selected))

\* safe.map(r => `'${r}'`).join(", ")
RECURSIVE JoinQuoted(_)
JoinQuoted(safe) ==
  IF safe = << >> THEN << >>
  ELSE <<"'">> \o Head(safe) \o <<"'">>
       \o (IF Len(safe) > 1 THEN <<",", " ">> ELSE << >>)
       \o JoinQuoted(Tail(safe))

AlwaysFalse == <<"1", "=", "0">>

InPrefix == <<"R", "o", "u", "t", "e", "N", "a", "m", "e", " ", "I", "N", " ", "(">>

\* a builder that would emit the IN list whatever the safe list holds
UseInListAlways(safe) == TRUE

\* the branch on safeInterstates.length > 0
UseInList(safe) == Len(safe) > 0

\* the where clause built from the safe list
WhereOf(safe) ==
  IF UseInList(safe) THEN InPrefix \o JoinQuoted(safe) \o <<")">> ELSE AlwaysFalse

\* the where clause performUpdate compiles from its selection
BuildWhere(selected) == WhereOf(safeInterstates(selected))

(***************************************************************************)
(* Reference dataset (src/data/nc_counties, src/data/fipsToCounty)         *)
(***************************************************************************)
F37001 == <<"3", "7", "0", "0", "1">>
F37063 == <<"3", "7", "0", "6", "3">>

\* keys of countyLayers: String(feature.properties.FIPS) of every county
Regions == {F37001, F37063}

\* fipsToCounty[Number(f)] || "Unknown County"
CountyName(f) ==
  LET n == StringToNumber(f)
  IN  IF n = Fin(37001) THEN "Alamance"
      ELSE IF n = Fin(37063) THEN "Durham"
      ELSE "Unknown County"

(***************************************************************************)
(* Host inputs                                                             *)
(***************************************************************************)
FullCols == <<{"y"}, {"x"}, {"crashWeight"}, {"countyFIPS"}, {"interstate"}>>
NoInterstateCols == <<{"y"}, {"x"}, {"crashWeight"}, {"countyFIPS"}>>
NoLatCols == <<{"x"}, {"crashWeight"}, {"countyFIPS"}, {"interstate"}>>

Table(cols, rows) == [present |-> TRUE, columns |-> cols, rows |-> rows]

\* options.dataViews?.[0]?.table absent; also the null of previousTableData
NoTable == [present |-> FALSE, columns |-> << >>, rows |-> << >>]

\* one row at latitude 35.5, longitude -79.2 (coordinates are carried in tenths
\* of a degree), weight 120, region key "37063", interstate "I-40"
TableA ==
  Table(FullCols,
        << <<NumCell(Fin(355)), NumCell(Fin(-792)), NumCell(Fin(120)),
             StrCell(F37063), StrCell(I40)>> >>)

\* one row of region "37063", weight 120 as in TableA, its interstate cell
\* empty, then two rows of region "37001", weights 5 and 7
TableB ==
  Table(FullCols,
        << <<NumCell(Fin(351)), NumCell(Fin(-788)), NumCell(Fin(120)),
             StrCell(F37063), NullCell>>,
           <<NumCell(Fin(36)), NumCell(Fin(-79)), NumCell(Fin(5)),
             StrCell(F37001), StrCell(<<"I", " ", "8", "5">>)>>,
           <<NumCell(Fin(36)), NumCell(Fin(-80)), NumCell(Fin(7)),
             StrCell(F37001), StrCell(<<"D", "R", "O", "P">>)>> >>)

TableNoInterstate ==
  Table(NoInterstateCols,
        << <<NumCell(Fin(35)), NumCell(Fin(-79)), NumCell(Fin(3)),
             NumCell(Fin(37063))>> >>)

TableNoLat ==
  Table(NoLatCols,
        << <<NumCell(Fin(-79)), NumCell(Fin(3)), NumCell(Fin(37063)),
             StrCell(I40)>> >>)

TableEmpty == Table(FullCols, << >>)

BasicFilter(cols, vals) == [filterType |-> "Basic", target |-> cols, values |-> vals]

\* a basic filter on the column "Interstate" selecting I-40, DROP TABLE and " i-40 "
FilterInterstate ==
  BasicFilter(<< <<"I", "n", "t", "e", "r", "s", "t", "a", "t", "e">> >>,
              <<StrCell(I40),
                StrCell(<<"D", "R", "O", "P", " ", "T", "A", "B", "L", "E">>),
                StrCell(<<" ", "i", "-", "4", "0", " ">>)>>)

\* options.viewport
Viewport(w, h) == [width |-> w, height |-> h]

\* VisualUpdateOptions: the table of dataViews[0], jsonFilters, which the host
\* may leave out (hasFilters = FALSE), the selectedMetric of metadata.objects
\* ("" when the object is absent) and the viewport
Options(table, hasFilters, filters) ==
  [table |-> table, hasFilters |-> hasFilters, jsonFilters |-> filters,
   metric |-> "", viewport |-> Viewport(640, 480)]

NoOptions == Options(NoTable, FALSE, << >>)

Requests ==
  { Options(TableA, TRUE, << >>),
    Options(TableA, TRUE, <<FilterInterstate>>),
    Options(TableA, FALSE, << >>),
    Options(TableB, TRUE, << >>),
    Options(TableNoInterstate, TRUE, << >>),
    Options(TableNoLat, TRUE, << >>),
    Options(TableEmpty, TRUE, << >>),
    Options(NoTable, TRUE, << >>) }

(***************************************************************************)
(* Program constants and bounds of the model                               *)
(***************************************************************************)
\* debounce(this.performUpdate.bind(this), 100)
DebounceWait == 100
\* setTimeout(() => this.performUpdate(options), 500)
RetryDelay == 500
\* if (this.retryCount < 5)
MaxRetries == 5

\* time advances in steps of half a quiet period
TimeStep == DebounceWait \div 2

\* remote layer instances in use together (attached, listed or current)
MaxLayers == 3
\* retry timers pending together
MaxTimers == 2
\* calls counted in one burst (the count saturates)
MaxBurst == 3
MaxRequests == 2
MaxHandlers == 2

(***************************************************************************)
(* State                                                                   *)
(***************************************************************************)
VARIABLES
  previousTableData,  \* Visual.previousTableData (NoTable is null)
  retryCount,         \* Visual.retryCount
  hccsLayer,          \* Visual.hccsLayer (NoLayer is undefined)
  hccsLayerAdded,     \* Visual.hccsLayerAdded
  layerControl,       \* overlays of Visual.layerControl, the selector on the map
  countyLayers,       \* per region, of its L.Path: fill colour, tooltip, the
                      \* regions its LatLngBounds object covers, and the
                      \* mouseover/mouseout handler pairs registered on it
  markers,            \* markers registered in Visual.pruneCluster
  mapLayers,          \* the layers attached to Visual.map
  zOrder,             \* the vector layers on the map, bottom to top
  camera,             \* regions covered by the last fitBounds ({} is the
                      \* initial view)
  layerWhere,         \* where clause of each remote layer in use, by id
  timerLeft,          \* lodash: time until timerId fires; -1 when timerId is unset
  sinceLastCall,      \* lodash: now - lastCallTime, saturating at DebounceWait
  lastArgs,           \* lodash: lastArgs (NoOptions is undefined)
  retryTimers,        \* pending setTimeout retries: [left, options], oldest first
  lastCycle,          \* history: the execution of performUpdate that has just
                      \* ended, if the last step was one
  baseline,           \* history: the execution that recorded previousTableData
  burst,              \* history: the update calls the debounce is holding
  requests,           \* history: update calls so far (saturates at MaxRequests)
  retriesRun,         \* history: retry executions while only one update call
                      \* has been made
  registered,         \* history: addOverlay calls per remote layer id
  call,               \* a pure function applied on its own: arguments and result
  settings,           \* this.settings
  mapContainer,       \* style.width and style.height of the map container
  mapRemoved          \* this.map.remove() has been called

vars ==
  <<previousTableData, retryCount, hccsLayer, hccsLayerAdded, layerControl,
    countyLayers, markers, mapLayers, zOrder, camera, layerWhere, timerLeft,
    sinceLastCall, lastArgs, retryTimers, lastCycle, baseline, burst,
    requests, retriesRun, registered, call, settings, mapContainer,
    mapRemoved>>

\* what a reconciliation pass may touch
layerVars ==
  <<hccsLayer, hccsLayerAdded, layerControl, countyLayers, markers, mapLayers,
    zOrder, camera, layerWhere>>

historyVars == <<baseline, burst, requests, retriesRun, registered>>

\* what a cycle sets before it looks at the roles, and the life of the map
frameVars == <<settings, mapContainer, mapRemoved>>

NoCall == [fn |-> "none"]

NoBurst == [calls |-> 0, rapid |-> TRUE, last |-> NoOptions]

NoCycle ==
  [opts |-> NoOptions, via |-> "none", outcome |-> "none", burst |-> NoBurst,
   replaced |-> FALSE, restacked |-> FALSE, countBefore |-> 0, rebound |-> {},
   resized |-> FALSE]

NoBaseline == [opts |-> NoOptions, passed |-> FALSE]

NoLayer == [kind |-> "none", id |-> 0]
ClusterLayer == [kind |-> "cluster", id |-> 0]
CountiesLayer == [kind |-> "counties", id |-> 0]
HccsLayer(n) == [kind |-> "hccs", id |-> n]

Overlay(name, layer) == [name |-> name, layer |-> layer]

\* L.control.layers(undefined, { Incidents: pruneCluster, Counties: countiesLayer })
NewLayerControl ==
  <<Overlay("Incidents", ClusterLayer), Overlay("Counties", CountiesLayer)>>

NoTooltip == [name |-> "", total |-> NaN]

\* div.style.width = "100%"; div.style.height = "100%"
FullSize == [width |-> [unit |-> "%", n |-> 100], height |-> [unit |-> "%", n |-> 100]]

\* onEachFeature: the L.Path of a county as L.geoJSON creates it
NewPath(f) == [fillColor |-> "", tooltip |-> NoTooltip, bounds |-> {f}, hover |-> 0]

Min(a, b) == IF a <= b THEN a ELSE b

\* state after the constructor
Constructed ==
  /\ previousTableData = NoTable
  /\ retryCount = 0
  /\ hccsLayer = NoLayer
  /\ hccsLayerAdded = FALSE
  /\ layerControl = NewLayerControl
  /\ countyLayers = [f \in Regions |-> NewPath(f)]
  /\ markers = << >>
  /\ mapLayers = {ClusterLayer, CountiesLayer}
  /\ zOrder = <<CountiesLayer>>
  /\ camera = {}
  /\ layerWhere = [i \in 1..MaxLayers |-> << >>]
  /\ timerLeft = -1
  /\ sinceLastCall = DebounceWait
  /\ lastArgs = NoOptions
  /\ retryTimers = << >>
  /\ lastCycle = NoCycle
  /\ baseline = NoBaseline
  /\ burst = NoBurst
  /\ requests = 0
  /\ retriesRun = 0
  /\ registered = [i \in 1..MaxLayers |-> 0]
  /\ settings = [selectedMetric |-> "crashes"]
  /\ mapContainer = FullSize
  /\ mapRemoved = FALSE

Init == Constructed /\ call = NoCall

(***************************************************************************)
(* performUpdate: the reconciliation cycle                                 *)
(***************************************************************************)
latIdx(t) == findIndex(t.columns, "y")
lonIdx(t) == findIndex(t.columns, "x")
crashIdx(t) == findIndex(t.columns, "crashWeight")
fipsIdx(t) == findIndex(t.columns, "countyFIPS")
interstateIdx(t) == findIndex(t.columns, "interstate")

\* a comparison that would find no two tables equal
isEqualNever(a, b) == FALSE

\* fast-deep-equal on two tables: structural equality
isEqual(a, b) == a = b

\* if (this.previousTableData && isEqual(this.previousTableData, dv.table)) return
Suppressed(prev, t) == prev.present /\ isEqual(prev, t)

\* a check that would let every table through to the layer pass
MissingNever(t) == FALSE

\* rows.length === 0 || [latIdx, lonIdx, crashIdx, fipsIdx].some(i => i < 0)
MissingData(t) ==
  \/ Len(t.rows) = 0
  \/ \E i \in {latIdx(t), lonIdx(t), crashIdx(t), fipsIdx(t)} : i < 1

\* a cycle that would schedule a retry whatever the counter
MayRetryAlways(count) == TRUE

\* if (this.retryCount < 5)
MayRetry(count) == count < MaxRetries

\* how far an execution of performUpdate(o) gets in the current state:
\*   "notable"     no table in the options, return
\*   "suppressed"  the table equals previousTableData, return
\*   "retry"       interstate role missing, a retry is scheduled
\*   "exhausted"   interstate role missing, retries used up
\*   "threw"       jsonFilters is absent, for..of throws
\*   "abandoned"   rows empty or another role missing, return
\*   "passed"      the layer pass ran to the end
Outcome(o) ==
  IF ~o.table.present THEN "notable"
  ELSE IF Suppressed(previousTableData, o.table) THEN "suppressed"
  ELSE IF interstateIdx(o.table) < 1
       THEN (IF MayRetry(retryCount) THEN "retry" ELSE "exhausted")
  ELSE IF ~o.hasFilters THEN "threw"
  ELSE IF MissingData(o.table) THEN "abandoned"
  ELSE "passed"

\* s.padStart(5, "0")
RECURSIVE padStart5(_)
padStart5(s) == IF Len(s) >= 5 THEN s ELSE padStart5(<<"0">> \o s)

\* the tooltip text of a county, as its two variable parts
Tooltip(f, val) == [name |-> CountyName(f), total |-> val]

\* layer.on("mouseover", () => ...); layer.on("mouseout", () => ...): each call
\* registers a new closure; the count of pairs is kept up to MaxHandlers
OnHover(pairs) == Min(pairs + 1, MaxHandlers)

\* a loop that would rebind the tooltip of every county at every pass
RebindAlways(bound, tip) == TRUE

\* if (layer.getTooltip()?.getContent() !== tip)
Rebind(bound, tip) == bound # tip

\* the choropleth loop over Object.entries(this.countyLayers)
Choropleth(crashByFIPS) ==
  [f \in Regions |->
     LET val == TotalOrZero(crashByFIPS, f)
         tip == Tooltip(f, val)
     IN  [fillColor |-> getColor(val),
          tooltip |-> IF Rebind(countyLayers[f].tooltip, tip) THEN tip
                      ELSE countyLayers[f].tooltip,
          bounds |-> countyLayers[f].bounds,
          hover |-> OnHover(countyLayers[f].hover)]]

\* the counties whose tooltip the loop unbinds and binds again
Rebound(crashByFIPS) ==
  {f \in Regions :
     Rebind(countyLayers[f].tooltip, Tooltip(f, TotalOrZero(crashByFIPS, f)))}

\* filteredFIPS: the zero-padded keys of the rows, in insertion order
RECURSIVE filteredFIPS(_, _, _)
filteredFIPS(set, rows, fIdx) ==
  IF rows = << >> THEN set
  ELSE filteredFIPS(SetAdd(set, padStart5(FipsKey(Head(rows), fIdx))),
                    Tail(rows), fIdx)

\* countyBounds, by region: the keys of filteredFIPS that have a layer (every
\* layer of the reference dataset has valid bounds)
countyBounds(rows, fIdx) ==
  SelectSeq(filteredFIPS(<< >>, rows, fIdx), LAMBDA f : f \in Regions)

\* countyBounds.reduce((acc, b) => acc.extend(b), countyBounds[0]): what the
\* combined bounds cover
combinedBounds(layers, fit) == UNION {layers[fit[i]].bounds : i \in 1..Len(fit)}

\* Leaflet 1.9: Polyline.getBounds returns the layer's own LatLngBounds and
\* LatLngBounds.extend widens it in place, so the bounds of the first county of
\* countyBounds become the combined bounds
ExtendFirst(layers, fit) ==
  IF fit = << >> THEN layers
  ELSE [layers EXCEPT ![Head(fit)].bounds = combinedBounds(layers, fit)]

\* the markers registered from the rows, in row order;
\* a row whose latitude or longitude is NaN is skipped
RECURSIVE MarkersOf(_, _)
MarkersOf(rows, t) ==
  IF rows = << >> THEN << >>
  ELSE LET r == Head(rows)
           lat == ToNumber(CellAt(r, latIdx(t)))
           lon == ToNumber(CellAt(r, lonIdx(t)))
           v == RowWeight(r, crashIdx(t))
       IN  (IF lat.k = "nan" \/ lon.k = "nan" THEN << >>
            ELSE << [lat |-> lat, lon |-> lon, weight |-> v,
                     data |-> [fips |-> padStart5(FipsKey(r, fipsIdx(t))),
                               value |-> v]] >>)
           \o MarkersOf(Tail(rows), t)

\* if (this.hccsLayer && this.map.hasLayer(this.hccsLayer))
RemoveOld == hccsLayer # NoLayer /\ hccsLayer \in mapLayers

\* if (this.layerControl && this.hccsLayerAdded), inside the removal branch
RebuildControl == RemoveOld /\ hccsLayerAdded

\* a registration that would not look at the flag
RegisterAlways(added) == TRUE

\* if (this.layerControl && this.hccsLayer && !this.hccsLayerAdded)
RegisterOverlay(added) == ~added

\* the map's layers once the old remote layer has been removed
Detached == IF RemoveOld THEN mapLayers \ {hccsLayer} ELSE mapLayers

\* the selector once it has been rebuilt, if it is
ControlAfterRebuild == IF RebuildControl THEN NewLayerControl ELSE layerControl

\* the stacking once the old remote layer has been removed
Unstacked(order, layer) == SelectSeq(order, LAMBDA l : l # layer)

StackAfterRemoval == IF RemoveOld THEN Unstacked(zOrder, hccsLayer) ELSE zOrder

OnStack(order, layer) == \E i \in 1..Len(order) : order[i] = layer

\* a bringToBack that would leave the stacking as it is
BringNowhere(order, layer) == order

\* layer.bringToBack(): a layer on the map goes below every other
BringToBack(order, layer) ==
  IF OnStack(order, layer) THEN <<layer>> \o Unstacked(order, layer) ELSE order

\* layer.bringToFront(): a layer on the map goes above every other
BringToFront(order, layer) ==
  IF OnStack(order, layer) THEN Append(Unstacked(order, layer), layer) ELSE order

\* ids of the remote layers still reachable once the pass has dropped the old
\* one: attached to the map or listed in the selector.  A new instance is a
\* fresh object: it takes the least id that no reachable instance has.
LiveIds ==
  {l.id : l \in {m \in Detached : m.kind = "hccs"}}
    \cup {ControlAfterRebuild[i].layer.id :
            i \in {j \in 1..Len(ControlAfterRebuild) :
                     ControlAfterRebuild[j].layer.kind = "hccs"}}

FreeIds == (1..MaxLayers) \ LiveIds

\* the layer pass of performUpdate(o): choropleth, camera, markers, remote layer
LayerPass(o) ==
  LET t == o.table
      crashByFIPS == Aggregate(t.rows, fipsIdx(t), crashIdx(t))
      fit == countyBounds(t.rows, fipsIdx(t))
      selected == selectedInterstates(o.jsonFilters, t.rows, interstateIdx(t))
      where == BuildWhere(selected)
      added == IF RebuildControl THEN FALSE ELSE hccsLayerAdded
      id == CHOOSE i \in FreeIds : \A j \in FreeIds : i <= j
      new == HccsLayer(id)
      register == RegisterOverlay(added)
  IN  /\ countyLayers' = ExtendFirst(Choropleth(crashByFIPS), fit)
      /\ camera' = IF fit # << >> THEN combinedBounds(countyLayers, fit) ELSE camera
      /\ markers' = MarkersOf(t.rows, t)
      /\ layerWhere' =
           [i \in 1..MaxLayers |->
              IF i = id THEN where ELSE IF i \in LiveIds THEN layerWhere[i] ELSE << >>]
      /\ registered' =
           [i \in 1..MaxLayers |->
              IF i = id THEN (IF register THEN 1 ELSE 0)
              ELSE IF i \in LiveIds THEN registered[i] ELSE 0]
      /\ hccsLayer' = new
      /\ mapLayers' = Detached \cup {new}
      /\ zOrder' =
           BringToFront(BringToBack(Append(StackAfterRemoval, new), CountiesLayer),
                        new)
      /\ layerControl' =
           IF register
           THEN Append(ControlAfterRebuild, Overlay("High Crash Corridors", new))
           ELSE ControlAfterRebuild
      /\ hccsLayerAdded' = (register \/ added)

\* this.resizeMap(options): the frame callback sets the container to the
\* viewport of the options; it reads nothing else and is taken with the cycle
resizeMap(o) ==
  [width |-> [unit |-> "px", n |-> o.viewport.width],
   height |-> [unit |-> "px", n |-> o.viewport.height]]

\* (objs?.dataSelector?.selectedMetric as "crashes" | "persons") || "crashes"
selectedMetric(o) == IF o.metric = "" THEN "crashes" ELSE o.metric

\* a cycle that would start the counter afresh whenever it schedules no retry
RetryCountRestarted(outcome, count) ==
  IF outcome = "retry" THEN count + 1 ELSE 0

\* a cycle that would leave the retry counter alone once the role is found
RetryCountKept(outcome, count) ==
  IF outcome = "retry" THEN count + 1 ELSE count

\* this.retryCount++ before a retry is scheduled; this.retryCount = 0 once the
\* interstate role is found
RetryCountAfter(outcome, count) ==
  CASE outcome = "retry" -> count + 1
    [] outcome \in {"threw", "abandoned", "passed"} -> 0
    [] OTHER -> count

\* one execution of performUpdate(o), started by the debounce (via = "debounce")
\* or by a retry timer (via = "retry"); timers are the retry timers left pending
performUpdate(o, via, timers) ==
  LET outcome == Outcome(o)
  IN  /\ outcome = "retry" => Len(timers) < MaxTimers
      /\ outcome = "passed" => FreeIds # {}
      /\ previousTableData' =
           IF outcome \in {"notable", "suppressed"} THEN previousTableData ELSE o.table
      /\ retryCount' = RetryCountAfter(outcome, retryCount)
      /\ mapContainer' =
           IF outcome \in {"notable", "suppressed"} THEN mapContainer ELSE resizeMap(o)
      /\ settings' =
           IF outcome \in {"notable", "suppressed"} THEN settings
           ELSE [selectedMetric |-> selectedMetric(o)]
      /\ UNCHANGED mapRemoved
      /\ retryTimers' =
           IF outcome = "retry"
           THEN Append(timers, [left |-> RetryDelay, opts |-> o])
           ELSE timers
      /\ IF outcome = "passed"
         THEN LayerPass(o)
         ELSE UNCHANGED <<layerVars, registered>>
      /\ baseline' =
           IF outcome \in {"notable", "suppressed"} THEN baseline
           ELSE [opts |-> o, passed |-> (outcome = "passed")]
      /\ lastCycle' =
           [opts |-> o, via |-> via, outcome |-> outcome,
            burst |-> IF via = "debounce" THEN burst ELSE NoBurst,
            replaced |-> (outcome = "passed" /\ hccsLayer # NoLayer),
            restacked |-> (/\ outcome = "passed"
                           /\ BringToBack(StackAfterRemoval, CountiesLayer)
                                # StackAfterRemoval),
            countBefore |-> retryCount,
            resized |-> (outcome \notin {"notable", "suppressed"}),
            rebound |-> IF outcome = "passed"
                        THEN Rebound(Aggregate(o.table.rows, fipsIdx(o.table),
                                               crashIdx(o.table)))
                        ELSE {}]

(***************************************************************************)
(* Update Scheduler: lodash debounce (trailing edge) and the retry timers  *)
(***************************************************************************)
\* a debounce whose timer would never find the quiet period over
shouldInvokeNever(elapsed) == FALSE

\* lodash shouldInvoke: timeSinceLastCall >= wait
shouldInvoke(elapsed) == elapsed >= DebounceWait

\* lodash remainingWait: wait - timeSinceLastCall
remainingWait(elapsed) == DebounceWait - elapsed

\* a debounce that would keep the arguments of the first call of a burst
NextArgsFirst(held, o) == IF held # NoOptions THEN held ELSE o

\* lodash debounced(): lastArgs takes the arguments of every call
NextArgs(held, o) == o

\* Visual.update(options): this.debouncedUpdate(options)
update(o) ==
  /\ lastArgs' = NextArgs(lastArgs, o)
  /\ sinceLastCall' = 0
  /\ timerLeft' = IF timerLeft = -1 THEN DebounceWait ELSE timerLeft
  /\ burst' =
       IF timerLeft = -1
       THEN [calls |-> 1, rapid |-> TRUE, last |-> o]
       ELSE [calls |-> Min(burst.calls + 1, MaxBurst),
             rapid |-> burst.rapid /\ sinceLastCall < DebounceWait,
             last |-> o]
  /\ requests' = Min(requests + 1, MaxRequests)
  /\ retriesRun' = 0
  /\ lastCycle' = NoCycle
  /\ UNCHANGED <<previousTableData, retryCount, frameVars, layerVars, retryTimers,
                 baseline, registered, call>>

\* lodash timerExpired, trailing edge: timerId is cleared and func is invoked
\* with lastArgs
DebounceInvoke ==
  /\ timerLeft = 0
  /\ shouldInvoke(sinceLastCall)
  /\ timerLeft' = -1
  /\ lastArgs' = NoOptions
  /\ performUpdate(lastArgs, "debounce", retryTimers)
  /\ burst' = NoBurst
  /\ UNCHANGED <<sinceLastCall, requests, retriesRun, call>>

\* lodash timerExpired when a call came in since the timer was set: the timer is
\* restarted for the rest of the quiet period
DebounceRearm ==
  /\ timerLeft = 0
  /\ ~shouldInvoke(sinceLastCall)
  /\ timerLeft' = remainingWait(sinceLastCall)
  /\ lastCycle' = NoCycle
  /\ UNCHANGED <<previousTableData, retryCount, frameVars, layerVars, sinceLastCall,
                 lastArgs, retryTimers, historyVars, call>>

\* the oldest retry timer fires: () => this.performUpdate(options)
RetryFire ==
  /\ retryTimers # << >>
  /\ Head(retryTimers).left = 0
  /\ performUpdate(Head(retryTimers).opts, "retry", Tail(retryTimers))
  /\ retriesRun' = IF requests = 1 THEN Min(retriesRun + 1, MaxRetries + 1)
                    ELSE retriesRun
  /\ UNCHANGED <<timerLeft, sinceLastCall, lastArgs, burst, requests, call>>

TimerDue ==
  \/ timerLeft = 0
  \/ \E i \in 1..Len(retryTimers) : retryTimers[i].left = 0

\* time passes: by step, or up to the next timer that falls due if that is sooner
Advance(step) ==
  /\ ~TimerDue
  /\ timerLeft > 0 \/ retryTimers # << >> \/ sinceLastCall < DebounceWait
  /\ LET lefts == {retryTimers[i].left : i \in 1..Len(retryTimers)}
                    \cup (IF timerLeft > 0 THEN {timerLeft} ELSE {})
         d == CHOOSE x \in lefts \cup {step} : \A y \in lefts \cup {step} : x <= y
     IN  /\ timerLeft' = IF timerLeft > 0 THEN timerLeft - d ELSE timerLeft
         /\ retryTimers' =
              [i \in 1..Len(retryTimers) |->
                 [retryTimers[i] EXCEPT !.left = retryTimers[i].left - d]]
         /\ sinceLastCall' = Min(sinceLastCall + d, DebounceWait)
  /\ lastCycle' = NoCycle
  /\ UNCHANGED <<previousTableData, retryCount, frameVars, layerVars, lastArgs, historyVars,
                 call>>

\* the user clicks the checkbox of an overlay in the layer selector:
\* the layer is added to the map, or removed from it
ToggleOverlay(i) ==
  /\ i \in 1..Len(layerControl)
  /\ mapLayers' =
       IF layerControl[i].layer \in mapLayers
       THEN mapLayers \ {layerControl[i].layer}
       ELSE mapLayers \cup {layerControl[i].layer}
  /\ zOrder' =
       IF layerControl[i].layer = ClusterLayer THEN zOrder
       ELSE IF layerControl[i].layer \in mapLayers
            THEN Unstacked(zOrder, layerControl[i].layer)
            ELSE Append(zOrder, layerControl[i].layer)
  /\ lastCycle' = NoCycle
  /\ UNCHANGED <<previousTableData, retryCount, frameVars, hccsLayer, hccsLayerAdded,
                 layerControl, countyLayers, markers, camera, layerWhere,
                 timerLeft, sinceLastCall, lastArgs, retryTimers, historyVars,
                 call>>

\* The scheduler and the reconciliation under every kind of request.
Next ==
  \/ \E o \in Requests : update(o)
  \/ DebounceInvoke
  \/ DebounceRearm
  \/ RetryFire
  \/ Advance(TimeStep)

Spec == Init /\ [][Next]_vars

\* The scheduler under finitely many requests, its timers firing when due:
\* the host calls update at most MaxRequests times, a timer of the event loop
\* that has fallen due runs its callback, and time does not stop.
FairRequests ==
  { Options(TableA, TRUE, << >>),
    Options(TableB, TRUE, << >>),
    Options(TableNoInterstate, TRUE, << >>),
    Options(TableEmpty, TRUE, << >>) }

NextFair ==
  \/ \E o \in FairRequests : requests < MaxRequests /\ update(o)
  \/ DebounceInvoke
  \/ DebounceRearm
  \/ RetryFire
  \/ Advance(TimeStep)

\* DebounceInvoke as the timer sees it: the timer is due, the quiet period is
\* over, timerId is cleared.  Every such step of NextFair is a DebounceInvoke
\* step, and under at most MaxRequests requests performUpdate can always run
\* (InvokeReady), so the two are enabled in the same states.
DebounceExpires ==
  /\ timerLeft = 0
  /\ shouldInvoke(sinceLastCall)
  /\ timerLeft' = -1

InvokeReady ==
  (timerLeft = 0 /\ shouldInvoke(sinceLastCall)) =>
    /\ Outcome(lastArgs) = "retry" => Len(retryTimers) < MaxTimers
    /\ Outcome(lastArgs) = "passed" => FreeIds # {}

SpecFair ==
  /\ Init
  /\ [][NextFair]_vars
  /\ WF_timerLeft(DebounceExpires)
  /\ WF_vars(DebounceRearm)
  /\ WF_vars(RetryFire)
  /\ WF_vars(Advance(TimeStep))

\* The scheduler when the host sends two different tables that lack the
\* interstate role, the empty table and TableA: each cycle on one of the first
\* two finds the other recorded as previous table.
RetryRequests ==
  { Options(TableNoInterstate, TRUE, << >>),
    Options(Table(NoInterstateCols, << >>), TRUE, << >>),
    Options(TableEmpty, TRUE, << >>),
    Options(TableA, TRUE, << >>) }

NextRetry ==
  \/ \E o \in RetryRequests : update(o)
  \/ DebounceInvoke
  \/ DebounceRearm
  \/ RetryFire
  \/ Advance(TimeStep)

SpecRetry == Init /\ [][NextRetry]_vars

\* Visual.destroy(): this.map.remove() takes every layer off the map and
\* removes the map; the debounce timer and the retry timers are left alone
destroy ==
  /\ ~mapRemoved
  /\ mapRemoved' = TRUE
  /\ mapLayers' = {}
  /\ zOrder' = << >>
  /\ lastCycle' = NoCycle
  /\ UNCHANGED <<previousTableData, retryCount, settings, mapContainer, hccsLayer,
                 hccsLayerAdded, layerControl, countyLayers, markers, camera,
                 layerWhere, timerLeft, sinceLastCall, lastArgs, retryTimers,
                 historyVars, call>>

\* The life of the visual up to and after destroy(): the host makes requests
\* until it destroys the visual and none afterwards.  The requests are those of
\* RetryRequests whose cycles end before the layer pass, so that no cycle
\* calls Leaflet on a removed map.
NextDestroy ==
  \/ \E o \in RetryRequests \ {Options(TableA, TRUE, << >>)} :
       ~mapRemoved /\ update(o)
  \/ destroy
  \/ DebounceInvoke
  \/ DebounceRearm
  \/ RetryFire
  \/ Advance(TimeStep)

SpecDestroy == Init /\ [][NextDestroy]_vars

\* The reconciliation when the host repeats a table with other filters, another
\* metric or another viewport.
\* TableA with or without a basic filter on "Interstate" whose only value is no
\* valid route, with or without the metric "persons", in a viewport of width 640
\* or 1280; and TableB
SuppressRequests ==
  {[Options(TableA, TRUE, f) EXCEPT !.metric = m, !.viewport = Viewport(w, 480)] :
     f \in {<< >>,
            <<BasicFilter(<< <<"I", "n", "t", "e", "r", "s", "t", "a", "t", "e">> >>,
                          <<StrCell(<<"D", "R", "O", "P">>)>>)>>},
     m \in {"", "persons"}, w \in {640, 1280}}
  \cup {Options(TableB, TRUE, << >>)}

NextSuppress ==
  \/ \E o \in SuppressRequests : update(o)
  \/ DebounceInvoke
  \/ DebounceRearm
  \/ Advance(DebounceWait)

SpecSuppress == Init /\ [][NextSuppress]_vars

\* The reconciliation with a user at the layer selector.  No request of
\* SelectorRequests lacks the interstate role: a cycle that finds it missing
\* returns before the layer pass, at its first execution and at every retry.
SelectorRequests == {o \in Requests : interstateIdx(o.table) >= 1}

NextSelector ==
  \/ \E o \in SelectorRequests : update(o)
  \/ DebounceInvoke
  \/ DebounceRearm
  \/ Advance(DebounceWait)
  \/ \E i \in 1..(MaxLayers + 2) : ToggleOverlay(i)

SpecSelector == Init /\ [][NextSelector]_vars

(***************************************************************************)
(* The Query Builder on its own: one selection, taken from a basic filter  *)
(* on the column "Interstate" or from the interstate column of the rows,   *)
(* is compiled into the where clause of the remote layer.                  *)
(***************************************************************************)
MaxSelection == 3

DropTable == <<"D", "R", "O", "P", " ", "T", "A", "B", "L", "E">>
PaddedLower == <<" ", "i", "-", "4", "0", " ">>
SpacedI85 == <<"I", " ", "8", "5">>
SpacedI77 == <<" ", " ", "I", " ", " ", "7", "7", " ">>
Injection == <<"I", "-", "9", "5", "'", " ", "O", "R", " ", "'", "1", "'", "=", "'", "1">>
SpacedI40 == <<"I", " ", "4", "0">>
PaddedI40 == <<" ", " ", "I", "-", "4", "0", " ">>
LowerI40 == <<"i", "-", "4", "0">>

Candidates ==
  {StrCell(I40), StrCell(DropTable), StrCell(PaddedLower), StrCell(SpacedI85),
   StrCell(SpacedI77), StrCell(Injection), StrCell(<< >>), NumCell(Fin(40)),
   NullCell, StrCell(SpacedI40), StrCell(PaddedI40), StrCell(LowerI40)}

Selections == UNION {[1..n -> Candidates] : n \in 0..MaxSelection}

\* where the host puts the candidates: in a basic filter on "Interstate"
\* ("filters"), in the interstate column of the rows ("rows"), in such a filter
\* while a row holds I-95 ("both"), or in a basic filter on another column
\* while a row holds I-95 ("elsewhere")
Sources == {"filters", "rows", "both", "elsewhere"}

\* the selection as the host hands it over: jsonFilters, and rows of the table
FiltersOf(c) ==
  IF c.source \in {"filters", "both"}
  THEN <<BasicFilter(<< <<"I", "n", "t", "e", "r", "s", "t", "a", "t", "e">> >>, c.cells)>>
  ELSE IF c.source = "elsewhere"
  THEN <<BasicFilter(<< <<"C", "o", "u", "n", "t", "y">> >>, c.cells)>>
  ELSE << >>

RowsOf(c) ==
  IF c.source = "rows"
  THEN [i \in 1..Len(c.cells) |->
          <<NumCell(Fin(35)), NumCell(Fin(-79)), NumCell(Fin(1)),
            StrCell(F37001), c.cells[i]>>]
  ELSE IF c.source \in {"both", "elsewhere"}
  THEN << <<NumCell(Fin(35)), NumCell(Fin(-79)), NumCell(Fin(1)),
            StrCell(F37001), StrCell(I95)>> >>
  ELSE << >>

InitQuery ==
  /\ Constructed
  /\ call \in [fn : {"query"}, source : Sources, cells : Selections,
                done : {FALSE}, where : {<< >>}]

\* visual.ts 228-400: the selection is collected and the where clause compiled
CompileQuery ==
  /\ call.fn = "query"
  /\ ~call.done
  /\ call' =
       [call EXCEPT
          !.done = TRUE,
          !.where = BuildWhere(selectedInterstates(FiltersOf(call), RowsOf(call),
                                                   findIndex(FullCols, "interstate")))]
  /\ UNCHANGED <<previousTableData, retryCount, frameVars, layerVars, timerLeft,
                 sinceLastCall, lastArgs, retryTimers, lastCycle, historyVars>>

NextQuery == CompileQuery

SpecQuery == InitQuery /\ [][NextQuery]_vars

(***************************************************************************)
(* The Aggregation Engine on its own: a batch of rows and the same batch   *)
(* in another order are both aggregated.                                   *)
(***************************************************************************)
MaxRows == 3

Weights ==
  {NumCell(Fin(5)), NumCell(Fin(-2)), NumCell(Inf), NumCell(NInf), NullCell,
   StrCell(<<"7">>)}

\* region keys as the host may send them: text, number, a number short of
\* five digits, or nothing
Keys == {StrCell(F37001), NumCell(Fin(37063)), NumCell(Fin(1001)), NullCell}

BatchRows ==
  {<<NumCell(Fin(35)), NumCell(Fin(-79)), w, k, StrCell(I40)>> :
     w \in Weights, k \in Keys}

Batches == UNION {[1..n -> BatchRows] : n \in 0..MaxRows}

Orderings(n) ==
  {p \in [1..n -> 1..n] : \A i, j \in 1..n : p[i] = p[j] => i = j}

Permuted(rows, p) == [i \in 1..Len(rows) |-> rows[p[i]]]

InitAggregate ==
  /\ Constructed
  /\ \E rows \in Batches : \E p \in Orderings(Len(rows)) :
       call = [fn |-> "aggregate", rows |-> rows, shuffled |-> Permuted(rows, p),
               done |-> FALSE, totals |-> EmptyTotals, shuffledTotals |-> EmptyTotals]

\* visual.ts 271-277 on the batch and on the shuffled batch
AggregateBatch ==
  /\ call.fn = "aggregate"
  /\ ~call.done
  /\ call' =
       [call EXCEPT
          !.done = TRUE,
          !.totals = Aggregate(call.rows, fipsIdx(TableA), crashIdx(TableA)),
          !.shuffledTotals =
             Aggregate(call.shuffled, fipsIdx(TableA), crashIdx(TableA))]
  /\ UNCHANGED <<previousTableData, retryCount, frameVars, layerVars, timerLeft,
                 sinceLastCall, lastArgs, retryTimers, lastCycle, historyVars>>

NextAggregate == AggregateBatch

SpecAggregate == InitAggregate /\ [][NextAggregate]_vars

(***************************************************************************)
(* The classifier on its own, with the breaks of src/unnamed/part_001      *)
(***************************************************************************)
MaxValue == 10001

ClassifyInputs ==
  {Fin(n) : n \in (-1)..MaxValue} \cup {Inf, NInf, NaN}

\* the next larger input
Successor(val) ==
  CASE val.k = "ninf" -> Fin(-1)
    [] val.k = "fin" /\ val.v < MaxValue -> Fin(val.v + 1)
    [] val.k = "nan" -> NaN
    [] OTHER -> Inf

InitClassify ==
  /\ Constructed
  /\ call \in [fn : {"classify"}, val : ClassifyInputs, done : {FALSE},
                class : {0}, color : {""}, fill : {""}, fillNext : {""},
                icon : {""}]

\* getColor(val) of part_001; getColor and getChoro of visual.ts on val, and
\* getColor on the next larger input
Classify ==
  /\ call.fn = "classify"
  /\ ~call.done
  /\ call' = [call EXCEPT !.done = TRUE,
                          !.class = ClassIndex(call.val, breaksV1),
                          !.color = getColorV1(call.val),
                          !.fill = getColor(call.val),
                          !.fillNext = getColor(Successor(call.val)),
                          !.icon = getChoro(call.val)]
  /\ UNCHANGED <<previousTableData, retryCount, frameVars, layerVars, timerLeft,
                 sinceLastCall, lastArgs, retryTimers, lastCycle, historyVars>>

NextClassify == Classify

SpecClassify == InitClassify /\ [][NextClassify]_vars

(***************************************************************************)
(* The row loops on their own: one batch, whose rows may hold a missing or  *)
(* non-numeric latitude or weight, is aggregated and turned into markers.   *)
(***************************************************************************)
MaxMarkerRows == 2

MarkerRows ==
  {<<lat, NumCell(Fin(-792)), w, StrCell(k), StrCell(I40)>> :
     lat \in {NumCell(Fin(355)), NullCell, StrCell(<<"a", "b", "c">>)},
     w \in {NumCell(Fin(5)), NullCell, StrCell(<<"a", "b", "c">>)},
     k \in Regions}

InitMarkers ==
  /\ Constructed
  /\ call \in [fn : {"markers"},
                rows : UNION {[1..n -> MarkerRows] : n \in 0..MaxMarkerRows},
                done : {FALSE}, totals : {EmptyTotals}, markers : {<< >>}]

\* visual.ts 271-277 and 344-357: the aggregation loop and the marker loop
BuildMarkers ==
  /\ call.fn = "markers"
  /\ ~call.done
  /\ call' =
       [call EXCEPT
          !.done = TRUE,
          !.totals = Aggregate(call.rows, fipsIdx(TableA), crashIdx(TableA)),
          !.markers = MarkersOf(call.rows, TableA)]
  /\ UNCHANGED <<previousTableData, retryCount, frameVars, layerVars, timerLeft,
                 sinceLastCall, lastArgs, retryTimers, lastCycle, historyVars>>

NextMarkers == BuildMarkers

SpecMarkers == InitMarkers /\ [][NextMarkers]_vars

(***************************************************************************)
(* The life of a Visual from its construction: the host calls the          *)
(* constructor with or without options; a constructed Visual then takes    *)
(* update requests.                                                        *)
(***************************************************************************)
\* the fields as their declarations initialize them, before the constructor
\* body runs: no map, no layer, no selector, no debounced function
Declared ==
  /\ previousTableData = NoTable
  /\ retryCount = 0
  /\ hccsLayer = NoLayer
  /\ hccsLayerAdded = FALSE
  /\ layerControl = << >>
  /\ countyLayers = [f \in {} |-> NewPath(f)]
  /\ markers = << >>
  /\ mapLayers = {}
  /\ zOrder = << >>
  /\ camera = {}
  /\ layerWhere = [i \in 1..MaxLayers |-> << >>]
  /\ timerLeft = -1
  /\ sinceLastCall = DebounceWait
  /\ lastArgs = NoOptions
  /\ retryTimers = << >>
  /\ lastCycle = NoCycle
  /\ baseline = NoBaseline
  /\ burst = NoBurst
  /\ requests = 0
  /\ retriesRun = 0
  /\ registered = [i \in 1..MaxLayers |-> 0]
  /\ settings = [selectedMetric |-> "crashes"]
  /\ mapContainer = [width |-> [unit |-> "", n |-> 0], height |-> [unit |-> "", n |-> 0]]
  /\ mapRemoved = FALSE

InitConstruct ==
  /\ Declared
  /\ call \in [fn : {"construct"}, hasOptions : BOOLEAN, done : {FALSE},
                threw : {FALSE}]

\* a constructor that would go on without options
RequireNothing(hasOptions) == TRUE

\* if (!options) throw new Error("VisualConstructorOptions must be provided")
RequireOptions(hasOptions) == hasOptions

\* new Visual(options)
Construct ==
  /\ call.fn = "construct"
  /\ ~call.done
  /\ IF RequireOptions(call.hasOptions)
     THEN /\ mapLayers' = {ClusterLayer, CountiesLayer}
          /\ zOrder' = <<CountiesLayer>>
          /\ countyLayers' = [f \in Regions |-> NewPath(f)]
          /\ layerControl' = NewLayerControl
          /\ mapContainer' = FullSize
          /\ call' = [call EXCEPT !.done = TRUE]
          /\ UNCHANGED <<previousTableData, retryCount, settings, mapRemoved,
                         hccsLayer, hccsLayerAdded, markers, camera, layerWhere, timerLeft, sinceLastCall,
                         lastArgs, retryTimers, lastCycle, historyVars>>
          /\ Constructed'
     ELSE /\ call' = [call EXCEPT !.done = TRUE, !.threw = TRUE]
          /\ UNCHANGED <<previousTableData, retryCount, frameVars, layerVars, timerLeft,
                         sinceLastCall, lastArgs, retryTimers, lastCycle,
                         historyVars>>

\* the host holds a Visual only when the constructor returned
Alive == call.fn = "construct" /\ call.done /\ ~call.threw

NextConstruct ==
  \/ Construct
  \/ Alive /\ \E o \in SelectorRequests : update(o)
  \/ Alive /\ DebounceInvoke
  \/ Alive /\ DebounceRearm
  \/ Alive /\ Advance(DebounceWait)

SpecConstruct == InitConstruct /\ [][NextConstruct]_vars

(***************************************************************************)
(* The Column Role Binder on its own: performUpdate runs once, right after *)
(* construction, on a table whose columns carry any subset of the five     *)
(* roles, with or without rows, with or without jsonFilters.               *)
(***************************************************************************)
Roles == {"y", "x", "crashWeight", "countyFIPS", "interstate"}

\* the positions of FullCols whose role is assigned
Assigned(S) == SelectSeq(<<1, 2, 3, 4, 5>>, LAMBDA i : FullCols[i] \subseteq S)

\* the table the host sends when only the roles of S are assigned
TableWith(S, withRows) ==
  Table([j \in 1..Len(Assigned(S)) |-> FullCols[Assigned(S)[j]]],
        IF withRows
        THEN << [j \in 1..Len(Assigned(S)) |-> TableA.rows[1][Assigned(S)[j]]] >>
        ELSE << >>)

InitBinder ==
  /\ Constructed
  /\ \E S \in SUBSET Roles : \E withRows, hasFilters \in BOOLEAN :
       call = [fn |-> "cycle", roles |-> S, withRows |-> withRows, done |-> FALSE,
               opts |-> Options(TableWith(S, withRows), hasFilters, << >>)]

\* performUpdate(options), called once
RunCycle ==
  /\ call.fn = "cycle"
  /\ ~call.done
  /\ performUpdate(call.opts, "direct", retryTimers)
  /\ call' = [call EXCEPT !.done = TRUE]
  /\ UNCHANGED <<timerLeft, sinceLastCall, lastArgs, burst, requests, retriesRun>>

NextBinder == RunCycle

SpecBinder == InitBinder /\ [][NextBinder]_vars

-----------------------------------------------------------------------------
\* Properties of the update scheduler

\* C1 (debounce coalescing): a burst of update() calls, each less than the quiet
\* period after the one before, runs the reconciliation exactly once: while calls
\* are held the debounce timer is pending and nothing has run for them; the one
\* execution comes no sooner than DebounceWait after the last call, receives the
\* options of the last call, and leaves no call held and no timer pending.
C1_DebounceCoalescing ==
  /\ [](burst.calls >= 1 <=> timerLeft >= 0)
  /\ [](burst.calls >= 1 => lastArgs = burst.last)
  /\ [][lastCycle'.via = "debounce" =>
          /\ burst.calls >= 1
          /\ sinceLastCall >= DebounceWait
          /\ lastCycle'.opts = burst.last
          /\ timerLeft' = -1
          /\ burst'.calls = 0]_vars
  /\ [][(burst.calls >= 1 /\ burst'.calls = 0) => lastCycle'.via = "debounce"]_vars

\* a burst of three rapid calls, the last differing from the first, has just
\* been executed
C1_BurstExecuted ==
  /\ lastCycle.via = "debounce"
  /\ lastCycle.burst.calls >= 3
  /\ lastCycle.burst.rapid
  /\ lastCycle.opts = lastCycle.burst.last
  /\ lastCycle.opts.table = TableB
  /\ timerLeft = -1

\* the input of an execution is complete: a table with rows, every role bound,
\* the interstate role included
Complete(o) ==
  /\ o.table.present
  /\ ~MissingData(o.table)
  /\ interstateIdx(o.table) >= 1

\* C2 (change suppression): when the reconciliation runs twice with the same
\* input, the layer pass runs exactly once: the second execution, whose table is
\* deep-equal to the recorded one, changes no layer, and the first execution,
\* which recorded the table, completed its layer pass.
C2_ChangeSuppression ==
  [][(/\ lastCycle'.via # "none"
      /\ Complete(lastCycle'.opts)
      /\ baseline.opts = lastCycle'.opts)
     => (/\ lastCycle'.outcome = "suppressed"
         /\ UNCHANGED layerVars
         /\ baseline.passed)]_vars

\* C3 (retry bound): when the interstate role stays missing, a single request is
\* retried exactly MaxRetries times and then stops: once no timer is pending,
\* MaxRetries retries have run.
C3_RetryBound ==
  (/\ requests = 1
   /\ previousTableData.present
   /\ interstateIdx(previousTableData) < 1
   /\ timerLeft = -1
   /\ retryTimers = << >>)
  => retriesRun = MaxRetries

-----------------------------------------------------------------------------
\* Properties of the layer reconciler, with a user at the layer selector

HccsOnMap == {l \in mapLayers : l.kind = "hccs"}

ClusterOnMap == {l \in mapLayers : l.kind = "cluster"}

HccsEntries ==
  {i \in 1..Len(layerControl) : layerControl[i].name = "High Crash Corridors"}

\* C6 (at most one remote layer): at most one remote feature layer and at most
\* one cluster layer are attached to the map, whatever the updates and the
\* user's toggles.
C6_AtMostOneRemoteLayer ==
  /\ Cardinality(HccsOnMap) <= 1
  /\ Cardinality(ClusterOnMap) <= 1

\* C7 (no duplicate selector entries): the selector lists at most one entry
\* named "High Crash Corridors", no instance is registered more than once, and
\* the flag hccsLayerAdded says whether the entry is there.
C7_NoDuplicateEntries ==
  /\ Cardinality(HccsEntries) <= 1
  /\ \A i \in 1..MaxLayers : registered[i] <= 1
  /\ hccsLayerAdded <=> HccsEntries # {}

\* a pass has just replaced an earlier remote layer and the selector lists one
\* entry for the remote layer
C7_ReplacedAndListed ==
  /\ lastCycle.outcome = "passed"
  /\ lastCycle.replaced
  /\ Cardinality(HccsEntries) = 1
  /\ hccsLayerAdded

\* C8 (selector consistency): whenever a remote layer is held, the selector's
\* "High Crash Corridors" entry refers to that instance.
C8_SelectorConsistency ==
  hccsLayer # NoLayer =>
    {layerControl[i].layer : i \in HccsEntries} = {hccsLayer}

-----------------------------------------------------------------------------
\* Properties of the Query Builder

\* the pieces of a clause between its single quotes, in order
RECURSIVE Segments(_, _)
Segments(s, cur) ==
  IF s = << >> THEN <<cur>>
  ELSE IF Head(s) = "'" THEN <<cur>> \o Segments(Tail(s), << >>)
  ELSE Segments(Tail(s), Append(cur, Head(s)))

\* the quoted tokens of a clause: every second piece
QuotedTokens(w) ==
  LET seg == Segments(w, << >>)
  IN  {seg[i] : i \in {j \in 1..Len(seg) : j % 2 = 0}}

ExampleSelection == <<StrCell(I40), StrCell(DropTable), StrCell(PaddedLower)>>

\* C4 (allow-list soundness): whatever the candidates and wherever they come
\* from, filters or rows, every quoted token of the compiled where clause is one
\* of the five valid routes; for the selection "I-40", "DROP TABLE", " i-40 "
\* the clause names I-40 and nothing else.
C4_AllowListSoundness ==
  (call.fn = "query" /\ call.done) =>
    /\ QuotedTokens(call.where) \subseteq VALID_ROUTES
    /\ (call.cells = ExampleSelection /\ call.source # "elsewhere")
         => QuotedTokens(call.where) = {I40}

\* the example selection, given as a filter, has been compiled
C4_ExampleCompiled ==
  /\ call.fn = "query"
  /\ call.done
  /\ call.source = "filters"
  /\ call.cells = ExampleSelection
  /\ call.where = InPrefix \o <<"'">> \o I40 \o <<"'", ")">>

\* a candidate survives when its text, normalized, is a valid route
Survives(c) == c.t # "null" /\ Normalize(CellToString(c)) \in VALID_ROUTES

EmptyInList == InPrefix \o <<")">>

\* C5 (always-false fallback): when no candidate survives normalization and the
\* allow-list, the empty selection included, the where clause is "1=0"; the
\* clause is never empty and never "RouteName IN ()".
C5_AlwaysFalseFallback ==
  (call.fn = "query" /\ call.done) =>
    /\ (/\ call.source \in {"filters", "rows"}
        /\ \A i \in 1..Len(call.cells) : ~Survives(call.cells[i]))
         => call.where = AlwaysFalse
    /\ call.where # << >>
    /\ call.where # EmptyInList
    /\ QuotedTokens(call.where) = {} => call.where = AlwaysFalse

\* a selection of candidates none of which survives has been compiled to "1=0"
C5_NoSurvivorCompiled ==
  /\ call.fn = "query"
  /\ call.done
  /\ call.source \in {"filters", "rows"}
  /\ Len(call.cells) >= 2
  /\ \E i \in 1..Len(call.cells) : call.cells[i] = StrCell(DropTable)
  /\ \A i \in 1..Len(call.cells) : ~Survives(call.cells[i])
  /\ call.where = AlwaysFalse

-----------------------------------------------------------------------------
\* Properties of the aggregation and of the classifier

\* C9 (order independence): a batch of rows and any reordering of it give the
\* same per-region totals, entry for entry.
C9_OrderIndependent ==
  (call.fn = "aggregate" /\ call.done) => call.totals = call.shuffledTotals

\* the class of each of the five inputs 0, 50, 51, 10000, 10001, given the class
\* claimed for 10000
FiveInputs(classOf10000) ==
  (call.fn = "classify" /\ call.done) =>
    /\ call.val = Fin(0) => call.class = 0
    /\ call.val = Fin(50) => call.class = 1
    /\ call.val = Fin(51) => call.class = 2
    /\ call.val = Fin(10000) => call.class = classOf10000
    /\ call.val = Fin(10001) => call.class = 7

\* C10 (classifier boundaries): with the breaks 0, 50, 100, 500, 1000, 5000,
\* 10000 the inputs 0, 50, 51, 10000, 10001 fall in the classes transparent (0),
\* 1, 2, 6 and 7, and every value equal to a break is in the lower class: the
\* class whose upper bound is that break.
C10_ClassifierBoundaries ==
  /\ FiveInputs(6)
  /\ (call.fn = "classify" /\ call.done) =>
       /\ \A i \in 1..Len(breaksV1) :
            call.val = Fin(breaksV1[i]) => call.class = i - 1
       /\ call.color = ColorRamp[call.class + 1]

\* the input 10000 has been classified
C10_TopBreakClassified ==
  /\ call.fn = "classify"
  /\ call.done
  /\ call.val = Fin(10000)
  /\ call.class = 6
  /\ call.color = "#bd0026"

\* C10 as stated: the inputs 0, 50, 51, 10000, 10001 fall in the classes
\* transparent, 1, 2, 7 and 7.
C10_AsStated == FiveInputs(7)

-----------------------------------------------------------------------------
\* Properties of a whole cycle

\* C11 (end to end): a completed cycle for the single row at latitude 35.5,
\* longitude -79.2 with region key "37063" and weight 120 totals 120 for region
\* 37063, styles that region with the class 4 colour, and leaves exactly one
\* marker, at the row's coordinate.
C11_EndToEnd ==
  (lastCycle.outcome = "passed" /\ lastCycle.opts.table = TableA) =>
    /\ Aggregate(TableA.rows, fipsIdx(TableA), crashIdx(TableA))
         = [f \in {F37063} |-> Fin(120)]
    /\ countyLayers[F37063].tooltip.total = Fin(120)
    /\ countyLayers[F37063].fillColor = ColorRamp[4 + 1]
    /\ countyLayers[F37001].fillColor = ColorRamp[1]
    /\ Len(markers) = 1
    /\ markers[1].lat = Fin(355)
    /\ markers[1].lon = Fin(-792)
    /\ markers[1].weight = Fin(120)

\* the cycle for that row has just completed, requested with an empty filter list
C11_SingleRowRendered ==
  /\ lastCycle.outcome = "passed"
  /\ lastCycle.opts = Options(TableA, TRUE, << >>)
  /\ countyLayers[F37063].fillColor = "#fd8d3c"
  /\ Len(markers) = 1

\* C12 (tolerance of missing roles): a cycle whose table lacks any of the five
\* roles, or has no rows, never throws: it ends by returning.
C12_NeverThrows ==
  (call.fn = "cycle" /\ call.done /\ (call.roles # Roles \/ ~call.withRows))
    => lastCycle.outcome # "threw"

\* the table lacks something a cycle needs: a role among the five, or rows
Lacking(t) ==
  \/ \E role \in Roles : \A i \in 1..Len(t.columns) : role \notin t.columns[i]
  \/ t.rows = << >>

C14_OnePendingCycle ==
  /\ Len(retryTimers) <= 1
  /\ ~(retryTimers # << >> /\ timerLeft >= 0)

\* the vector layers on the map are exactly the ones in the stacking, once each
StackIsMap ==
  /\ {zOrder[i] : i \in 1..Len(zOrder)} = mapLayers \ {ClusterLayer}
  /\ Cardinality(mapLayers \ {ClusterLayer}) = Len(zOrder)

\* C15 (stacking order): right after every completed reconciliation, whatever
\* the order in which the user attached the overlays before it, the choropleth
\* layer, if it is on the map, is at the bottom of the stacking and the current
\* remote layer is on the map above it, on top of every vector layer.
C15_StackingOrder ==
  /\ StackIsMap
  /\ lastCycle.outcome = "passed" =>
       /\ CountiesLayer \in mapLayers => zOrder[1] = CountiesLayer
       /\ zOrder[Len(zOrder)] = hccsLayer
       /\ hccsLayer # CountiesLayer

\* a reconciliation has just completed that found the choropleth layer above
\* another vector layer and brought it back to the bottom
C15_BroughtToBack ==
  /\ lastCycle.outcome = "passed"
  /\ lastCycle.restacked
  /\ Len(zOrder) >= 3
  /\ zOrder[1] = CountiesLayer

-----------------------------------------------------------------------------
\* Properties of the construction

\* C16 (construction without options): the constructor called without options
\* throws at once: no map, layer, selector or debounce state exists afterwards,
\* and nothing ever runs on that Visual; called with options it does not throw.
C16_ConstructorRequiresOptions ==
  call.fn = "construct" =>
    /\ (call.done /\ ~call.hasOptions) => (call.threw /\ Declared)
    /\ call.threw => ~call.hasOptions
    /\ (call.done /\ call.hasOptions) => (mapLayers # {} /\ layerControl # << >>)

\* the constructor has been called without options and has thrown
C16_ThrewWithoutOptions ==
  /\ call.fn = "construct"
  /\ ~call.hasOptions
  /\ call.done
  /\ call.threw
  /\ mapLayers = {}

-----------------------------------------------------------------------------
\* Properties of the aggregation keys

\* the rows of the aggregated batch
BatchIndex == 1..Len(call.rows)

KeyCell(i) == CellAt(call.rows[i], fipsIdx(TableA))

\* the sum of the weights, each coerced to a number with a non-number as 0, of
\* the rows from position i on whose key text is k
RECURSIVE WeightSum(_, _)
WeightSum(i, k) ==
  IF i > Len(call.rows) THEN Fin(0)
  ELSE IF KeyCell(i).t # "null" /\ CellToString(KeyCell(i)) = k
       THEN NumAdd(OrZero(ToNumber(CellAt(call.rows[i], crashIdx(TableA)))),
                   WeightSum(i + 1, k))
       ELSE WeightSum(i + 1, k)

\* C17 (summation by key): the totals have one entry per key present in the
\* batch, holding the sum of the weights of the rows with that key (a weight
\* that is not a number counting as 0); a row without a key creates no entry.
C17_SumByKey ==
  (call.fn = "aggregate" /\ call.done) =>
    /\ DOMAIN call.totals =
         {CellToString(KeyCell(i)) : i \in {j \in BatchIndex : KeyCell(j).t # "null"}}
    /\ \A k \in DOMAIN call.totals : call.totals[k] = WeightSum(1, k)

\* the key the marker of row i carries
MarkerKey(i) == MarkersOf(<<call.rows[i]>>, TableA)[1].data.fips

\* C18 (one key per row): every row that has a region key is totalled under the
\* zero-padded five-character key that its marker carries and that the camera
\* fit looks up; a numeric key 1001 is totalled under "01001".
C18_PaddedKey ==
  (call.fn = "aggregate" /\ call.done /\ \A i \in BatchIndex : KeyCell(i).t # "null")
    => /\ \A i \in BatchIndex : MarkerKey(i) \in DOMAIN call.totals
       /\ \A i \in BatchIndex : MarkerKey(i) = padStart5(FipsKey(call.rows[i], fipsIdx(TableA)))
       /\ \A k \in DOMAIN call.totals : Len(k) = 5

-----------------------------------------------------------------------------
\* Properties of the two colour ramps of visual.ts

\* the class (0 = transparent .. 7 = highest) a colour of a palette stands for
PaletteIndex(ramp, colour) == (CHOOSE i \in 1..Len(ramp) : ramp[i] = colour) - 1

InPalette(ramp, colour) == \E i \in 1..Len(ramp) : ramp[i] = colour

Classified == call.fn = "classify" /\ call.done

\* C19 (total and monotone): getColor maps every number to exactly one of 8
\* classes, the first break (of 7, ascending) that the value is <= deciding:
\* a value <= b0, negatives included, is transparent, a value beyond the last
\* break is in the highest class, and a larger input is never in a lower class.
C19_TotalMonotone ==
  /\ Len(breaks) = 7 /\ Len(ColorRamp) = 8
  /\ \A i, j \in 1..Len(ColorRamp) : ColorRamp[i] = ColorRamp[j] => i = j
  /\ \A i \in 1..(Len(breaks) - 1) : breaks[i] < breaks[i + 1]
  /\ Classified =>
       /\ InPalette(ColorRamp, call.fill)
       /\ \A i \in 1..Len(breaks) :
            (/\ NumLeq(call.val, Fin(breaks[i]))
             /\ i > 1 => ~NumLeq(call.val, Fin(breaks[i - 1])))
              => PaletteIndex(ColorRamp, call.fill) = i - 1
       /\ NumLeq(call.val, Fin(breaks[1])) => call.fill = "rgba(0,0,0,0)"
       /\ NumLeq(Fin(breaks[Len(breaks)] + 1), call.val) => call.fill = "#800026"
       /\ PaletteIndex(ColorRamp, call.fill) <= PaletteIndex(ColorRamp, call.fillNext)

\* a value beyond the last break has been classified
C19_BeyondLastBreak ==
  /\ Classified
  /\ call.val = Fin(1001)
  /\ call.fill = "#800026"
  /\ call.fillNext = "#800026"

\* C20 (one classification shape): for every input, getColor and getChoro select
\* the same class out of 8 and differ only in the palette they take it from.
C20_SameClassIndex ==
  /\ Len(ColorRamp) = Len(ChoroRamp)
  /\ Classified =>
       /\ InPalette(ChoroRamp, call.icon)
       /\ PaletteIndex(ColorRamp, call.fill) = PaletteIndex(ChoroRamp, call.icon)

\* the value 200, a break of both chains, has been classified by both
C20_BothRampsApplied ==
  /\ Classified
  /\ call.val = Fin(200)
  /\ call.fill = "#fd8d3c"
  /\ call.icon = "#fdae61"

-----------------------------------------------------------------------------
\* Properties of the selection and of the compiled predicate

\* the candidates of a call that are not null, each as trimmed text with every
\* run of inner whitespace replaced by one "-"
NormalizedCandidates ==
  {ReplaceWhitespace(Trim(CellToString(call.cells[i]))) :
     i \in {j \in 1..Len(call.cells) : call.cells[j].t # "null"}}

HasPrefix(w, p) == Len(w) >= Len(p) /\ SubSeq(w, 1, Len(p)) = p

OnlyI40Spellings ==
  /\ call.cells # << >>
  /\ \A i \in 1..Len(call.cells) :
       call.cells[i] \in {StrCell(SpacedI40), StrCell(PaddedI40), StrCell(LowerI40)}

\* C21 (predicate completeness): the where clause quotes exactly the
\* normalized candidates (trimmed, runs of whitespace replaced by "-") that are
\* valid routes under case-sensitive exact match, behind "RouteName IN (";
\* "I 40" and "  I-40 " yield I-40 and "i-40" yields nothing.
C21_PredicateCompleteness ==
  (call.fn = "query" /\ call.done /\ call.source \in {"filters", "rows"}) =>
    /\ QuotedTokens(call.where) = NormalizedCandidates \cap VALID_ROUTES
    /\ NormalizedCandidates \cap VALID_ROUTES # {}
         => HasPrefix(call.where, InPrefix)
    /\ OnlyI40Spellings =>
         IF \A i \in 1..Len(call.cells) : call.cells[i] = StrCell(LowerI40)
         THEN call.where = AlwaysFalse
         ELSE QuotedTokens(call.where) = {I40}

\* "I 40" and "i-40" have been compiled from rows: the clause names I-40 once
C21_SpacedCompiled ==
  /\ call.fn = "query"
  /\ call.done
  /\ call.source = "rows"
  /\ call.cells = <<StrCell(SpacedI40), StrCell(LowerI40)>>
  /\ call.where = InPrefix \o <<"'">> \o I40 \o <<"'", ")">>

\* C22 (selection precedence): when a basic filter on the column "interstate"
\* supplies at least one non-null value, the clause is compiled from the filter
\* values alone, "1=0" when none of them is a valid route although a row holds
\* I-95; the row values are used only when the filters supply none.
C22_SelectionPrecedence ==
  (call.fn = "query" /\ call.done /\ call.source \in {"both", "elsewhere"}) =>
    LET supplied == /\ call.source = "both"
                    /\ \E i \in 1..Len(call.cells) : call.cells[i].t # "null"
        fromFilters == NormalizedCandidates \cap VALID_ROUTES
    IN  /\ supplied => /\ QuotedTokens(call.where) = fromFilters
                       /\ fromFilters = {} => call.where = AlwaysFalse
        /\ ~supplied => QuotedTokens(call.where) = {I95}

\* a filter supplying only an invalid value has been compiled to "1=0" while a
\* row of the table holds I-95
C22_InvalidFilterWins ==
  /\ call.fn = "query"
  /\ call.done
  /\ call.source = "both"
  /\ call.cells = <<NullCell, StrCell(DropTable)>>
  /\ call.where = AlwaysFalse

-----------------------------------------------------------------------------
\* Properties of the baseline, of the entry into a cycle and of the retries

\* C23 (baseline of the suppression): previousTableData only ever holds a
\* dataset whose cycle completed the layer pass; the dataset of an abandoned
\* cycle (a role missing, rows empty) never becomes the baseline.
C23_BaselineFullyProcessed ==
  previousTableData.present => baseline.passed

\* C24 (single entry): every execution of performUpdate is started by the
\* expiry of the debounce timer and by no other path.
C24_DebounceOnlyEntry ==
  lastCycle.outcome # "none" => lastCycle.via = "debounce"

\* the cycle that has just ended got past the suppression and found the
\* interstate role assigned
FoundInterstate ==
  /\ lastCycle.outcome \notin {"none", "notable", "suppressed"}
  /\ interstateIdx(lastCycle.opts.table) >= 1

\* C25 (retry counter reset): after a cycle that finds the category-filter role
\* assigned the retry counter is zero, whatever it was before and whether the
\* cycle completed the layer pass or was abandoned.
C25_CounterReset ==
  FoundInterstate => retryCount = 0

\* a cycle that found the role and was abandoned for its empty rows has reset a
\* counter that earlier retries had raised
C25_ResetAfterRetries ==
  /\ FoundInterstate
  /\ lastCycle.outcome = "abandoned"
  /\ lastCycle.countBefore >= 1
  /\ retryCount = 0

\* C26 (exhaustion diagnostic): when a request leaves the role unassigned and
\* no other request arrives, the diagnostic "role still not assigned after
\* retries" is eventually reported.
C26_DiagnosticEventually ==
  (requests = 1 /\ lastCycle.outcome = "retry")
    ~> (lastCycle.outcome = "exhausted" \/ requests > 1)

Idle == timerLeft = -1 /\ retryTimers = << >>

-----------------------------------------------------------------------------
\* Properties of the layers after a completed pass

\* the sum of the weights of the rows of a table whose region key is f
RECURSIVE RegionTotal(_, _, _)
RegionTotal(rows, t, f) ==
  IF rows = << >> THEN 0
  ELSE (IF CellAt(Head(rows), fipsIdx(t)) = StrCell(f)
        THEN CellAt(Head(rows), crashIdx(t)).n.v ELSE 0)
       + RegionTotal(Tail(rows), t, f)

PassedTable == lastCycle.opts.table

\* the display of every region is that of its total in the batch of the pass
DisplayOfCurrentBatch ==
  lastCycle.outcome = "passed" =>
    \A f \in Regions :
      LET total == RegionTotal(PassedTable.rows, PassedTable, f)
          keyed == \E i \in 1..Len(PassedTable.rows) :
                     CellAt(PassedTable.rows[i], fipsIdx(PassedTable)) = StrCell(f)
      IN  /\ countyLayers[f].fillColor = ColorRamp[ClassIndex(Fin(total), breaks) + 1]
          /\ countyLayers[f].tooltip.total = Fin(total)
          /\ countyLayers[f].tooltip.name = CountyName(f)
          /\ ~keyed => /\ total = 0
                       /\ countyLayers[f].fillColor = "rgba(0,0,0,0)"

\* a pass unbinds and binds again exactly the tooltips whose text changes
ReboundOnlyChanged ==
  lastCycle'.outcome = "passed" =>
    lastCycle'.rebound =
      {f \in Regions : countyLayers'[f].tooltip # countyLayers[f].tooltip}

\* C28 (regions display the current batch): after every completed pass the fill
\* of each region is the class of its total in the current batch, 0 and
\* transparent when no row has its key, and its tooltip shows that total; the
\* tooltip is unbound and bound again only when its text changes.
C28_RegionsShowCurrentBatch ==
  []DisplayOfCurrentBatch /\ [][ReboundOnlyChanged]_vars

\* a pass over TableB right after one over TableA: region 37063 keeps its
\* tooltip (total 120) and region 37001 gets a new one (total 12)
C28_OneTooltipKept ==
  /\ lastCycle.outcome = "passed"
  /\ PassedTable = TableB
  /\ lastCycle.rebound = {F37001}
  /\ countyLayers[F37063].tooltip.total = Fin(120)
  /\ countyLayers[F37001].tooltip.total = Fin(12)

-----------------------------------------------------------------------------
\* Properties of the markers and of malformed rows

\* a cell that holds a number
Numeric(c) == c.t = "num" /\ c.n.k # "nan"

Located(r) ==
  Numeric(CellAt(r, latIdx(TableA))) /\ Numeric(CellAt(r, lonIdx(TableA)))

\* one marker per located row, in row order, with the row's weight (0 when the
\* weight is not a number) and its region key
RECURSIVE MarkerPerLocatedRow(_)
MarkerPerLocatedRow(rows) ==
  IF rows = << >> THEN << >>
  ELSE LET r == Head(rows)
           w == IF Numeric(CellAt(r, crashIdx(TableA)))
                THEN CellAt(r, crashIdx(TableA)).n ELSE Fin(0)
       IN  (IF Located(r)
            THEN << [lat |-> CellAt(r, latIdx(TableA)).n,
                     lon |-> CellAt(r, lonIdx(TableA)).n,
                     weight |-> w,
                     data |-> [fips |-> CellAt(r, fipsIdx(TableA)).s, value |-> w]] >>
            ELSE << >>)
           \o MarkerPerLocatedRow(Tail(rows))

\* C29 (markers of the current batch): after the marker loop the marker set
\* holds exactly one marker per row whose latitude and longitude are numeric,
\* with that row's weight and region key, and nothing else.
C29_OneMarkerPerLocatedRow ==
  (call.fn = "markers" /\ call.done) =>
    call.markers = MarkerPerLocatedRow(call.rows)

WellFormed(r) == Located(r) /\ Numeric(CellAt(r, crashIdx(TableA)))

\* C30 (malformed values are row-scoped): a row with a non-numeric coordinate
\* or weight yields no marker and adds nothing to any total; markers and totals
\* are those of the batch without the malformed rows.
C30_MalformedRowSkipped ==
  (call.fn = "markers" /\ call.done) =>
    LET clean == SelectSeq(call.rows, WellFormed)
    IN  /\ call.markers = MarkersOf(clean, TableA)
        /\ call.totals = Aggregate(clean, fipsIdx(TableA), crashIdx(TableA))

-----------------------------------------------------------------------------
\* Properties of the camera fit, of the suppression and of the retry budget

\* the regions of the reference dataset whose key occurs in the rows of the
\* pass that has just ended
RegionsOfBatch ==
  {f \in Regions :
     \E i \in 1..Len(PassedTable.rows) :
       padStart5(FipsKey(PassedTable.rows[i], fipsIdx(PassedTable))) = f}

\* C31 (camera fit): after a completed pass whose rows name at least one
\* region, the view is fit to the union of the bounding boxes of exactly the
\* regions whose key occurs in the current rows.
C31_FitToCurrentRegions ==
  (lastCycle.outcome = "passed" /\ RegionsOfBatch # {}) => camera = RegionsOfBatch

\* C36 (hover handlers): a completed pass over a region that already has its
\* mouseover and mouseout handlers restyles it without adding handlers to it.
C36_NoFurtherHandlers ==
  [][lastCycle'.outcome = "passed" =>
       \A f \in Regions :
         countyLayers[f].hover >= 1 => countyLayers'[f].hover = countyLayers[f].hover]_vars

\* C32 (suppression keyed on the table): a cycle whose table equals the recorded
\* previous table changes nothing, whatever its filters, metric and viewport:
\* no layer, no predicate, no setting, no container size, no counter, no timer.
C32_SuppressionKeyedOnTable ==
  [][(/\ lastCycle'.via # "none"
      /\ previousTableData.present
      /\ lastCycle'.opts.table = previousTableData)
       => (/\ UNCHANGED <<previousTableData, retryCount, layerVars, settings,
                          mapContainer, retryTimers>>
           /\ ~lastCycle'.resized)]_vars

\* a cycle with the table of the last completed one, but with a filter, the
\* that would compile to "1=0", the metric "persons" and a wider viewport, has
\* ended and left the predicate, the metric and the container as they were
C32_OtherFrameSuppressed ==
  /\ lastCycle.outcome = "suppressed"
  /\ baseline.passed
  /\ baseline.opts.jsonFilters = << >>
  /\ lastCycle.opts.jsonFilters # << >>
  /\ lastCycle.opts.metric = "persons"
  /\ lastCycle.opts.viewport.width = 1280
  /\ settings.selectedMetric = "crashes"
  /\ mapContainer.width.n = 640
  /\ hccsLayer # NoLayer
  /\ layerWhere[hccsLayer.id] = InPrefix \o <<"'">> \o I40 \o <<"'", ")">>

\* C33 (range of the retry counter): in every reachable state
\* 0 <= retryCount <= 5, however requests, debounce expiries and retry expiries
\* interleave.
C33_RetryCountInRange == retryCount \in 0..MaxRetries

\* a retry has found the role missing with the counter at its bound
C33_BoundReached ==
  /\ retryCount = MaxRetries
  /\ lastCycle.via = "retry"
  /\ lastCycle.outcome = "exhausted"

\* the cycle ending with this step got past the suppression and found the
\* interstate role missing
RoleMissing ==
  /\ lastCycle'.via # "none"
  /\ lastCycle'.opts.table.present
  /\ ~(previousTableData.present /\ lastCycle'.opts.table = previousTableData)
  /\ \A i \in 1..Len(lastCycle'.opts.table.columns) :
       "interstate" \notin lastCycle'.opts.table.columns[i]

\* ... was suppressed, or had no table
Returned ==
  /\ lastCycle'.via # "none"
  /\ \/ ~lastCycle'.opts.table.present
     \/ previousTableData.present /\ lastCycle'.opts.table = previousTableData

\* C34 (retry budget of the instance): every cycle that finds the role missing
\* raises retryCount while it is below 5; at 5 such a cycle schedules no retry
\* and leaves the counter; update(), the passing of time and suppressed cycles
\* leave it unchanged; every other cycle, having found the role, resets it.
C34_BudgetPerInstance ==
  [][/\ RoleMissing =>
          IF retryCount < MaxRetries
          THEN retryCount' = retryCount + 1 /\ Len(retryTimers') >= 1
          ELSE retryCount' = retryCount /\ Len(retryTimers') <= Len(retryTimers)
     /\ (lastCycle'.via = "none" \/ Returned) => retryCount' = retryCount
     /\ (lastCycle'.via # "none" /\ ~RoleMissing /\ ~Returned) => retryCount' = 0]_vars

\* with the budget used up and nothing pending, a new role-missing request has
\* been run by the debounce and abandoned with no retry scheduled
C34_LaterRequestAbandoned ==
  /\ lastCycle.via = "debounce"
  /\ lastCycle.outcome = "exhausted"
  /\ lastCycle.countBefore = MaxRetries
  /\ retryTimers = << >>

\* C35 (nothing runs after destroy): once destroy() has removed the map no
\* reconciliation cycle runs: no state after it is the end of an execution of
\* performUpdate, whether started by the debounce timer or by a retry timer.
C35_NoCycleAfterDestroy == mapRemoved => lastCycle.via = "none"

\* C37 (no duplicate tokens): in every compiled where clause each quoted token
\* occurs once: the number of quoted entries of the IN list is the number of
\* different tokens among them (for "I 40" and "I-40" a single 'I-40').
C37_TokensOnce ==
  (call.fn = "query" /\ call.done) =>
    (Len(Segments(call.where, << >>)) - 1) \div 2
      = Cardinality(QuotedTokens(call.where))

\* C38 (absent filter descriptors): a cycle whose options carry no jsonFilters
\* and whose table has the interstate role does not throw; when the table is
\* complete it takes the selection from the rows and completes the layer pass:
\* the where clause of the remote layer names I-40, the route of the row.
C38_AbsentFiltersTolerated ==
  (/\ call.fn = "cycle"
   /\ call.done
   /\ ~call.opts.hasFilters
   /\ "interstate" \in call.roles)
    => /\ lastCycle.outcome # "threw"
       /\ (call.roles = Roles /\ call.withRows)
            => /\ lastCycle.outcome = "passed"
               /\ hccsLayer # NoLayer
               /\ layerWhere[hccsLayer.id] = InPrefix \o <<"'">> \o I40 \o <<"'", ")">>

=============================================================================
